---- MODULE Spec2Model ----
(***************************************************************************)
(* A model of the bar-by-bar backtest engine of src/backtester.py          *)
(* (class Backtest): run, trade, and the two strategy hooks on_init and    *)
(* on_bar, whose bodies are any finite sequence of trade calls.            *)
(*                                                                         *)
(* Timestamps are 1..NumTs in ascending order; self.timestamps[i] (Python, *)
(* 0-based, negative indices counted from the end) is TsAt(i).             *)
(* Prices and quantities are integers.                                     *)
(***************************************************************************)
EXTENDS Integers, Sequences, FiniteSets, TLC

\* ---------------------------------------------------------------- bounds
NumTs == 3          \* distinct timestamps of the data table
MaxTrades == 2      \* trade calls the hooks issue over the life of one engine
MaxRuns == 2        \* run calls on one engine instance (SpecRerun)

\* ------------------------------------------------------ the market data
Symbols == {"X", "Y"}
\* The (symbol, qty) arguments the hooks call trade with: a sell, a buy, a
\* zero-quantity trade.
TradeInputs == {<<"X", -1>>, <<"Y", 0>>, <<"Y", 2>>}
Capitals == {1000}
Timestamps == 1..NumTs

\* data.index.get_level_values(0).unique(): position i of the index, with
\* Python's negative indices wrapping around to the end of the sequence.
TsAt(i) == IF i < 0 THEN NumTs + i + 1 ELSE i + 1

\* timestamps.get_loc(t): the 0-based position of timestamp t.
GetLoc(t) == t - 1

\* The open and close columns of the data table.
OpenPrice(t, s) == IF s = "X" THEN 9 + t ELSE 20 + 2 * t
ClosePrice(t, s) == IF s = "X" THEN 30 + 3 * t ELSE 50 + 5 * t

AllRows == Timestamps \X Symbols

\* The data tables an engine is constructed with: the gap-free table, and the
\* table in which symbol "Y" has no row at the third timestamp ("X" has a row
\* at every timestamp, so the timestamp axis itself is always 1..NumTs).
DataTables == {AllRows, AllRows \ {<<3, "Y">>}}

EmptyMap == [s \in {} |-> 0]

VARIABLES
    data,                     \* self.data: the set of (timestamp, symbol) rows
    pc,                       \* where run is: idle, on_init, on_bar, done, failed
    error,                    \* the exception that ended run, or "none"
    runs,                     \* number of run calls made on this instance
    capital, start_timestamp, end_timestamp,    \* run's arguments
    start_idx, end_idx, idx,  \* run's locals
    cash, positions,          \* self.cash, self.positions
    ts_dict,                  \* self.ts_dict["timestamp"]
    current_ts, current_prices,         \* self.current_ts, self.current_prices
    position_history, cash_history, trade_history,
    portfolio_value_history,  \* self.portfolio_value_history, <<>> while unset
    calls,                    \* history variable: the trade calls of this run
    hook_calls,               \* history variable: the hook invocations of this run
    ntrades                   \* history variable: trade calls since construction

vars == <<data, pc, error, runs, capital, start_timestamp, end_timestamp,
          start_idx, end_idx, idx, cash,
          positions, ts_dict, current_ts, current_prices, position_history,
          cash_history, trade_history, portfolio_value_history, calls,
          hook_calls, ntrades>>

\* ------------------------------------------------------------- helpers
\* self.data.loc[t].open: the open prices of the symbols with a row at t.
OpenRowsAt(t) ==
    [s \in {x \in Symbols : <<t, x>> \in data} |-> OpenPrice(t, s)]

RECURSIVE SumOver(_, _)
SumOver(S, f) ==
    IF S = {} THEN 0
    ELSE LET x == CHOOSE y \in S : TRUE IN f[x] + SumOver(S \ {x}, f)

\* ------------------------------------------------------------------ run
\* __init__: the engine holds the data; no run state exists yet (the fields
\* run creates are shown with neutral values until the first run sets them).
Init ==
    /\ data \in DataTables
    /\ pc = "idle"
    /\ error = "none"
    /\ runs = 0
    /\ capital = 0 /\ start_timestamp = 0 /\ end_timestamp = 0
    /\ start_idx = 0 /\ end_idx = 0 /\ idx = 0
    /\ cash = 0 /\ positions = EmptyMap
    /\ ts_dict = 0
    /\ current_ts = 0 /\ current_prices = EmptyMap
    /\ position_history = <<>> /\ cash_history = <<>> /\ trade_history = <<>>
    /\ portfolio_value_history = <<>>
    /\ calls = <<>>
    /\ hook_calls = <<>>
    /\ ntrades = 0

\* Line 55: timestamps.to_series()[start:end], a label slice, both ends
\* included; backtest_period[0] and backtest_period[-1] are its ends.
BacktestPeriod(start, end) == {t \in Timestamps : start <= t /\ t <= end}
PeriodFirst(start, end) ==
    CHOOSE t \in BacktestPeriod(start, end) :
        \A u \in BacktestPeriod(start, end) : t <= u
PeriodLast(start, end) ==
    CHOOSE t \in BacktestPeriod(start, end) :
        \A u \in BacktestPeriod(start, end) : u <= t

\* Lines 56 and 58.
StartIdx(start, end) == GetLoc(PeriodFirst(start, end)) - 1
EndIdx(start, end) == GetLoc(PeriodLast(start, end)) - 1

\* The fresh run state of lines 60-65.
FreshCash(cap) == cap
FreshPositions == EmptyMap
\* (variant: the trade log of the previous run is kept)
StaleTradeHistory == trade_history
FreshTradeHistory == <<>>
FreshPositionHistory(start_ts) == <<[timestamp |-> start_ts, pos |-> EmptyMap]>>
FreshCashHistory(start_ts, cap) == <<[timestamp |-> start_ts, cash |-> cap]>>

\* (variant: range(start_idx, end_idx), one iteration short)
LoopLastShort(ei) == ei - 1
\* The last index of range(start_idx, end_idx + 1).
LoopLast(ei) == ei

\* Line 69: the timestamp whose open prices execute the trades of iteration i.
ExecTs(i) == TsAt(i + 1)

\* (variant: on_bar is given the bar of current_ts)
BarTsCurrent(i) == TsAt(i + 1)
\* Line 68: the timestamp of the bar that iteration i passes to on_bar.
BarTs(i) == TsAt(i)

\* (variant: on_init is called in every iteration)
HookAlwaysOnInit(i, si) == "on_init"
\* Lines 71-73: the hook that runs first in iteration i, after the repricing:
\* on_init in the first iteration, on_bar in the others.
HookAfterReprice(i, si) == IF i = si THEN "on_init" ELSE "on_bar"

\* The invocation of hook h in iteration i, as hook_calls records it.
HookCall(h, i) == [hook |-> h, bar_ts |-> BarTs(i), exec_ts |-> ExecTs(i)]

\* run(capital, start_timestamp, end_timestamp), lines 55-72: the fresh run
\* state, the repricing of the first iteration, and the call of on_init.
\* start and end are timestamps of the data with start <= end, so the slice
\* of line 55 is not empty and the loop has a first iteration.
RunCall ==
    /\ \E cap \in Capitals, start \in Timestamps, end \in Timestamps :
        /\ start <= end
        /\ LET si == StartIdx(start, end)
               start_ts == TsAt(si)
           IN /\ capital' = cap
              /\ start_idx' = si
              /\ end_idx' = EndIdx(start, end)
              /\ start_timestamp' = start
              /\ end_timestamp' = end
              /\ idx' = si
              /\ cash' = FreshCash(cap)
              /\ positions' = FreshPositions
              /\ ts_dict' = start_ts
              /\ position_history' = FreshPositionHistory(start_ts)
              /\ cash_history' = FreshCashHistory(start_ts, cap)
              /\ trade_history' = FreshTradeHistory
              /\ current_ts' = ExecTs(si)
              /\ current_prices' = OpenRowsAt(ExecTs(si))
              /\ pc' = HookAfterReprice(si, si)
              /\ hook_calls' = <<HookCall(HookAfterReprice(si, si), si)>>
    /\ runs' = runs + 1
    /\ error' = "none"
    /\ calls' = <<>>
    /\ UNCHANGED <<data, portfolio_value_history, ntrades>>

\* The first call of run on a freshly constructed engine.
Run ==
    /\ pc = "idle"
    /\ RunCall

\* A later call of run on the same engine, after a run that completed or
\* failed: the fields of the earlier run are still there when it starts.
RunAgain ==
    /\ pc \in {"done", "failed"}
    /\ runs < MaxRuns
    /\ RunCall

\* Line 72: on_init returns; line 73 calls on_bar(self.data.loc[bar_ts], bar_ts).
OnInitReturn ==
    /\ pc = "on_init"
    /\ pc' = "on_bar"
    /\ hook_calls' = Append(hook_calls, HookCall("on_bar", idx))
    /\ UNCHANGED <<data, error, runs, capital, start_timestamp,
                   end_timestamp, start_idx, end_idx, idx, cash,
                   positions, ts_dict, current_ts, current_prices,
                   position_history, cash_history, trade_history,
                   portfolio_value_history, calls, ntrades>>

\* ---------------------------------------------------------------- trade
\* (variant: a zero quantity is treated as no trade on the positions)
AddPositionSkipZero(p, symbol, qty) ==
    IF qty = 0 THEN p
    ELSE [s \in DOMAIN p \cup {symbol} |->
            IF s = symbol
            THEN (IF symbol \in DOMAIN p THEN p[symbol] + qty ELSE qty)
            ELSE p[s]]
\* (variant: positions[symbol] = qty, the held quantity is overwritten)
AddPositionOverwrite(p, symbol, qty) ==
    [s \in DOMAIN p \cup {symbol} |-> IF s = symbol THEN qty ELSE p[s]]
\* Lines 91-94: positions[symbol] += qty, creating the entry when absent.
AddPosition(p, symbol, qty) ==
    [s \in DOMAIN p \cup {symbol} |->
        IF s = symbol
        THEN (IF symbol \in DOMAIN p THEN p[symbol] + qty ELSE qty)
        ELSE p[s]]

\* Line 95: the price the trade is executed at.
ExecPrice(symbol) == current_prices[symbol]

\* Line 96: the record appended to the trade log.
TradeRecord(symbol, qty) ==
    [timestamp |-> ts_dict, symbol |-> symbol, qty |-> qty]

\* (variant: the lookup failure is swallowed and the hook carries on)
MissingPriceSwallowed == UNCHANGED <<pc, error, cash, trade_history>>
\* Line 95 when symbol has no open price at current_ts: .loc[symbol] raises
\* before cash and the trade log are touched, and nothing catches it.
MissingPriceRaised ==
    /\ pc' = "failed"
    /\ error' = "MissingPrice"
    /\ UNCHANGED <<cash, trade_history>>

\* trade(symbol, qty) called from the running hook. A symbol without an open
\* price at current_ts makes current_prices.loc[symbol] raise (KeyError, the
\* MissingPrice failure) after positions was updated; the hook does not catch
\* it and neither does run.
Trade ==
    /\ pc \in {"on_init", "on_bar"}
    /\ ntrades < MaxTrades
    /\ ntrades' = ntrades + 1
    /\ \E in \in TradeInputs :
       LET symbol == in[1]
           qty == in[2]
       IN
        /\ positions' = AddPosition(positions, symbol, qty)
        /\ calls' = Append(calls,
               [hook |-> pc, bar_ts |-> BarTs(idx), exec_ts |-> current_ts,
                symbol |-> symbol, qty |-> qty,
                ok |-> symbol \in DOMAIN current_prices])
        /\ IF symbol \in DOMAIN current_prices
           THEN /\ cash' = cash - qty * ExecPrice(symbol)
                /\ trade_history' = Append(trade_history, TradeRecord(symbol, qty))
                /\ UNCHANGED <<pc, error>>
           ELSE MissingPriceRaised
    /\ UNCHANGED <<data, runs, capital, start_timestamp, end_timestamp,
                   start_idx, end_idx, idx, ts_dict,
                   current_ts, current_prices, position_history, cash_history,
                   portfolio_value_history, hook_calls>>

\* (variant: the rows share the positions dict instead of copying it)
SnapPositionsAliased ==
    [i \in 1..(Len(position_history) + 1) |->
        IF i = 1 THEN position_history[1]
        ELSE [timestamp |-> (IF i <= Len(position_history)
                             THEN position_history[i].timestamp
                             ELSE current_ts),
              pos |-> positions]]
\* (variant: the row keeps only the symbols traded in this iteration)
SnapPositionsOfStep ==
    Append(position_history,
        [timestamp |-> current_ts,
         pos |-> [s \in {calls[i].symbol :
                            i \in {j \in 1..Len(calls) :
                                      calls[j].exec_ts = current_ts}}
                    |-> positions[s]]])
\* Lines 75-77: on_bar returned; the rows appended for current_ts.
SnapPositions ==
    Append(position_history, [timestamp |-> current_ts, pos |-> positions])
\* Line 77: the cash row appended for current_ts.
SnapCash ==
    Append(cash_history, [timestamp |-> current_ts, cash |-> cash])

\* Lines 75-77, then lines 68-70 and 73 of the next iteration: snapshot,
\* reprice at the next timestamp and call on_bar again.
NextBar ==
    /\ pc = "on_bar"
    /\ idx < LoopLast(end_idx)
    /\ ts_dict' = current_ts
    /\ position_history' = SnapPositions
    /\ cash_history' = SnapCash
    /\ idx' = idx + 1
    /\ current_ts' = ExecTs(idx + 1)
    /\ current_prices' = OpenRowsAt(ExecTs(idx + 1))
    /\ pc' = HookAfterReprice(idx + 1, start_idx)
    /\ hook_calls' =
         Append(hook_calls, HookCall(HookAfterReprice(idx + 1, start_idx), idx + 1))
    /\ UNCHANGED <<data, error, runs, capital, start_timestamp,
                   end_timestamp, start_idx, end_idx, cash,
                   positions, trade_history, portfolio_value_history, calls,
                   ntrades>>

\* ------------------------------------------------- assembly, valuation
\* Line 79: the columns of pd.DataFrame(self.position_history) other than
\* "timestamp": every key of every appended row.
Columns(ph) == UNION {DOMAIN ph[i].pos : i \in 1..Len(ph)}

\* (variant: no fillna, a row keeps only the keys it was appended with)
NoFill(p, cols) == p
\* Line 79: .fillna(0) gives every row every column, 0 where the row had none.
ZeroFill(p, cols) == [s \in cols |-> IF s \in DOMAIN p THEN p[s] ELSE 0]

PositionFrame(ph) ==
    [i \in 1..Len(ph) |->
        [timestamp |-> ph[i].timestamp, pos |-> ZeroFill(ph[i].pos, Columns(ph))]]

\* Line 83: the label slice backtest_period[0] .. backtest_period[-1].
WindowFirst == PeriodFirst(start_timestamp, end_timestamp)
WindowLast == PeriodLast(start_timestamp, end_timestamp)

\* Line 83: data.close.loc[(slice(first, last), columns)].unstack() holds a
\* close price for the (timestamp, symbol) rows of the data in the slice; a
\* pair without a row is NaN (or a missing row or column) after unstack.
HasClose(t, s) ==
    /\ WindowFirst <= t /\ t <= WindowLast
    /\ <<t, s>> \in data

\* Line 85: the terms of one row that the sum adds; position * NaN is NaN,
\* and sum(axis=1) skips NaN. A run without any trade has no symbol column
\* and its series is the cash column alone.
ValuedSymbols(t, cols) == {s \in cols : HasClose(t, s)}

\* (variant: the cash column is left out of the concatenation)
PortfolioValueNoCash(prow, crow) ==
    LET syms == {s \in DOMAIN prow.pos : <<prow.timestamp, s>> \in data}
    IN SumOver(syms, [s \in syms |-> prow.pos[s] * ClosePrice(prow.timestamp, s)])
\* Line 85: (position_history * close_prices, cash_history) summed per row.
PortfolioValue(prow, crow) ==
    LET syms == ValuedSymbols(prow.timestamp, DOMAIN prow.pos)
    IN crow.cash
       + SumOver(syms, [s \in syms |-> prow.pos[s] * ClosePrice(prow.timestamp, s)])

\* The index of the history frames has a label twice.
DuplicateLabels(ph) ==
    \E i, j \in 1..Len(ph) : i # j /\ ph[i].timestamp = ph[j].timestamp

\* Lines 75-85 after the last on_bar returned: the last snapshot, the
\* assembly of the frames and the valuation. With a duplicated index label
\* the alignment of line 85 either raises or pairs the rows one to one,
\* depending on the order the joined index comes out in.
Finish ==
    /\ pc = "on_bar"
    /\ idx = LoopLast(end_idx)
    /\ ts_dict' = current_ts
    /\ cash_history' = SnapCash
    /\ LET pf == PositionFrame(SnapPositions)
       IN /\ position_history' = pf
          /\ \/ /\ pc' = "done"
                /\ error' = "none"
                /\ portfolio_value_history' =
                     [i \in 1..Len(pf) |->
                        [timestamp |-> pf[i].timestamp,
                         value |-> PortfolioValue(pf[i], SnapCash[i])]]
             \/ /\ DuplicateLabels(pf)
                /\ pc' = "failed"
                /\ error' = "InvalidIndex"
                /\ UNCHANGED portfolio_value_history
    /\ UNCHANGED <<data, runs, capital, start_timestamp, end_timestamp,
                   start_idx, end_idx, idx, cash,
                   positions, current_ts, current_prices, trade_history,
                   calls, hook_calls, ntrades>>

\* One run on a freshly constructed engine.
Next == Run \/ OnInitReturn \/ Trade \/ NextBar \/ Finish

Spec == Init /\ [][Next]_vars

\* Up to MaxRuns successive runs on one engine.
NextRerun == Next \/ RunAgain

SpecRerun == Init /\ [][NextRerun]_vars

\* ===================================================== properties checked
\* The decision window of the running call: the timestamps in [start, end].
DecisionWindow ==
    {t \in Timestamps : start_timestamp <= t /\ t <= end_timestamp}

\* The data has a timestamp strictly before the first decision timestamp.
HasLookback == \E t \in Timestamps : \A w \in DecisionWindow : t < w

\* The timestamp immediately before the first decision timestamp.
PriorTimestamp ==
    CHOOSE t \in Timestamps :
        /\ \A w \in DecisionWindow : t < w
        /\ \A u \in Timestamps : (\A w \in DecisionWindow : u < w) => u <= t

RECURSIVE Ascending(_)
Ascending(S) ==
    IF S = {} THEN <<>>
    ELSE LET m == CHOOSE x \in S : \A y \in S : x <= y
         IN <<m>> \o Ascending(S \ {m})

RowTimestamps(h) == [i \in 1..Len(h) |-> h[i].timestamp]

IsOk(c) == c.ok
Notional(c) == c.qty * OpenPrice(c.exec_ts, c.symbol)

\* Sum of qty * open price over the successful calls executed at or before t.
RECURSIVE SpentUpTo(_, _)
SpentUpTo(cs, t) ==
    IF cs = <<>> THEN 0
    ELSE (IF Head(cs).ok /\ Head(cs).exec_ts <= t THEN Notional(Head(cs)) ELSE 0)
         + SpentUpTo(Tail(cs), t)

\* Sum of qty * open price over all the successful calls.
RECURSIVE Spent(_)
Spent(cs) ==
    IF cs = <<>> THEN 0
    ELSE (IF Head(cs).ok THEN Notional(Head(cs)) ELSE 0) + Spent(Tail(cs))

\* Sum of the quantities of the calls on symbol s.
RECURSIVE QtyOn(_, _)
QtyOn(cs, s) ==
    IF cs = <<>> THEN 0
    ELSE (IF Head(cs).symbol = s THEN Head(cs).qty ELSE 0) + QtyOn(Tail(cs), s)

Held(p, s) == IF s \in DOMAIN p THEN p[s] ELSE 0
TradedSymbols == {calls[i].symbol : i \in 1..Len(calls)}
TradedBy(s, t) ==
    \E i \in 1..Len(calls) : calls[i].symbol = s /\ calls[i].exec_ts <= t

\* A step in which the running hook calls trade, and one that succeeds.
TradeStep == ntrades' = ntrades + 1
LastCallNext == calls'[Len(calls')]

\* A successful trade issued inside on_bar(bar at T, T) is priced at the open
\* of the timestamp immediately after T, not at T's own open or close.
PricedAtNextOpen ==
    (pc = "on_bar" /\ TradeStep /\ LastCallNext.ok) =>
        LET T == TsAt(idx)
            c == LastCallNext
        IN /\ \E n \in Timestamps : n = T + 1
           /\ cash' = cash - c.qty * OpenPrice(T + 1, c.symbol)
           /\ c.qty # 0 => /\ cash' # cash - c.qty * OpenPrice(T, c.symbol)
                           /\ cash' # cash - c.qty * ClosePrice(T, c.symbol)

\* C1 (no look-ahead): every trade issued inside an on_bar invocation with bar
\* timestamp T changes cash by qty times the open price of the symbol at the
\* timestamp immediately after T in the data table, never by T's own open or
\* close price.
C1_NoLookAhead == [][PricedAtNextOpen]_vars

\* The same for the runs that have a timestamp before start.
NoLookAheadWithLookback == [][HasLookback => PricedAtNextOpen]_vars

\* C2 (trade-log timestamp): every record of the trade log carries
\* currentTimestamp, the timestamp whose open price executed that trade.
\* Stated for the runs that have a timestamp before start.
C2_TradeLogTimestamp ==
    (runs > 0 /\ HasLookback) =>
        \A i \in 1..Len(trade_history) :
            trade_history[i].timestamp = calls[i].exec_ts

\* What the log carries instead: the timestamp of the bar the hook was given.
TradeLogCarriesBarTimestamp ==
    \A i \in 1..Len(trade_history) :
        trade_history[i].timestamp = calls[i].bar_ts

\* C3 (history completeness): when a run whose decision window holds N >= 1
\* timestamps and that has a timestamp before start completes, the position
\* history and the cash history each have exactly N + 1 rows, at
\* priorTimestamp followed by every decision-window timestamp in ascending
\* order, whatever the hooks traded.
C3_HistoryCompleteness ==
    (pc = "done" /\ HasLookback) =>
        LET expected == <<PriorTimestamp>> \o Ascending(DecisionWindow)
        IN /\ Len(position_history) = Cardinality(DecisionWindow) + 1
           /\ Len(cash_history) = Cardinality(DecisionWindow) + 1
           /\ RowTimestamps(position_history) = expected
           /\ RowTimestamps(cash_history) = expected

\* A completed run over a window of several timestamps, with trades.
C3_Witness ==
    /\ pc = "done" /\ HasLookback
    /\ Cardinality(DecisionWindow) >= 2
    /\ calls # <<>>
    /\ Len(position_history) = Cardinality(DecisionWindow) + 1

\* C4 (cash conservation): the cash of the cash-history row at timestamp X is
\* capital minus the sum, over the trades executed at timestamps up to and
\* including X, of quantity times the open price of the traded symbol at the
\* trade's execution timestamp.
C4_CashConservation ==
    runs > 0 =>
        \A i \in 1..Len(cash_history) :
            cash_history[i].cash
                = capital - SpentUpTo(calls, cash_history[i].timestamp)

\* The same for the runs that have a timestamp before start.
CashConservationWithLookback ==
    (runs > 0 /\ HasLookback) =>
        \A i \in 1..Len(cash_history) :
            cash_history[i].cash
                = capital - SpentUpTo(calls, cash_history[i].timestamp)

\* C5 (InsufficientLookback): run called when no timestamp of the data lies
\* strictly before the first decision-window timestamp fails with
\* InsufficientLookback before cash, positions, the histories or the trade
\* log are modified and before any hook is invoked.
C5_InsufficientLookback ==
    [][(runs' = runs + 1 /\ ~HasLookback') =>
          /\ pc' = "failed"
          /\ error' = "InsufficientLookback"
          /\ UNCHANGED <<cash, positions, position_history, cash_history,
                         trade_history>>]_vars

\* C6 (MissingPrice): trade on a symbol without an open price at
\* currentTimestamp fails with MissingPrice and the failure ends run: from
\* then on no hook runs and no history row is appended; the only step left is
\* a new call of run.
C6_MissingPrice ==
    [][/\ (pc \in {"on_init", "on_bar"} /\ TradeStep
              /\ LastCallNext.symbol \notin DOMAIN current_prices)
          => /\ pc' = "failed" /\ error' = "MissingPrice"
             /\ UNCHANGED <<position_history, cash_history>>
       /\ (pc = "failed" /\ error = "MissingPrice") => runs' = runs + 1]_vars

\* A run ended by a trade on a symbol without a price, after an earlier trade.
C6_Witness ==
    /\ pc = "failed" /\ error = "MissingPrice"
    /\ Len(calls) >= 2
    /\ ~calls[Len(calls)].ok

\* C7 (MissingData): when some timestamp T in [start, end] and some symbol
\* that is a column of the position history has no row (T, symbol) in the
\* data, run fails instead of completing with a portfolio value series in
\* which that term is left out. Stated for the runs that have a timestamp
\* before start and for the pairs whose position is not zero, the terms
\* whose omission changes the value.
C7_MissingData ==
    (pc = "done" /\ HasLookback) =>
        \A i \in 1..Len(position_history) :
            \A s \in Columns(position_history) :
                (/\ position_history[i].timestamp \in DecisionWindow
                 /\ position_history[i].pos[s] # 0)
                    => <<position_history[i].timestamp, s>> \in data

\* C8 (valuation identity): when run completes on gap-free data, the
\* portfolio value of every output row is the row's cash plus the sum over
\* the position-history columns of position times close price at the row's
\* timestamp, and at the seed row it is the starting capital.
C8_ValuationIdentity ==
    (pc = "done" /\ data = AllRows) =>
        /\ Len(portfolio_value_history) = Len(position_history)
        /\ \A i \in 1..Len(position_history) :
            LET r == position_history[i]
                cols == DOMAIN r.pos
            IN /\ portfolio_value_history[i].timestamp = r.timestamp
               /\ portfolio_value_history[i].value
                    = cash_history[i].cash
                      + SumOver(cols, [s \in cols |->
                                        r.pos[s] * ClosePrice(r.timestamp, s)])
        /\ portfolio_value_history[1].value = capital

\* A completed run on gap-free data that ends holding both symbols.
C8_Witness ==
    /\ pc = "done" /\ data = AllRows /\ HasLookback
    /\ Len(position_history) >= 3
    /\ \A s \in Symbols :
        /\ s \in DOMAIN position_history[Len(position_history)].pos
        /\ position_history[Len(position_history)].pos[s] # 0

\* C9 (reset between runs), over successive runs on one engine (SpecRerun):
\* in every run, the first or a later one on the
\* same engine, the state is the one a fresh engine would have: the trade log
\* holds only this run's successful trades, cash is capital minus what this
\* run's trades cost, positions are the sums of this run's trades, the
\* histories start with the seed row (capital, no position) and have one row
\* per finished step, and the portfolio values of a completed run have one
\* entry per history row.
C9_ResetBetweenRuns ==
    runs > 0 =>
        /\ Len(trade_history) = Len(SelectSeq(calls, IsOk))
        /\ \A i \in 1..Len(trade_history) :
            /\ trade_history[i].symbol = calls[i].symbol
            /\ trade_history[i].qty = calls[i].qty
        /\ cash = capital - Spent(calls)
        /\ DOMAIN positions = TradedSymbols
        /\ \A s \in Symbols : Held(positions, s) = QtyOn(calls, s)
        /\ cash_history[1].cash = capital
        /\ \A s \in Symbols : Held(position_history[1].pos, s) = 0
        /\ Len(position_history) = Len(cash_history)
        /\ Len(cash_history)
             = (idx - start_idx) + 1
               + (IF pc \in {"on_init", "on_bar"} \/ error = "MissingPrice"
                  THEN 0 ELSE 1)
        /\ pc = "done" =>
            /\ Len(portfolio_value_history) = Len(cash_history)
            /\ \A i \in 1..Len(cash_history) :
                portfolio_value_history[i].timestamp = cash_history[i].timestamp

\* A second run that traded and completed, after a first run that traded.
C9_Witness ==
    /\ runs = 2 /\ pc = "done"
    /\ calls # <<>>
    /\ ntrades > Len(calls)

\* C10 (zero-fill): in the assembled position history every symbol traded in
\* the run is a column of every row, the seed row holds 0 for it, and a row
\* at timestamp T holds 0 for every symbol not traded at or before T.
C10_ZeroFill ==
    pc = "done" =>
        \A i \in 1..Len(position_history) : \A s \in TradedSymbols :
            /\ s \in DOMAIN position_history[i].pos
            /\ i = 1 => position_history[i].pos[s] = 0
            /\ ~TradedBy(s, position_history[i].timestamp)
                 => position_history[i].pos[s] = 0

\* A completed run in which a symbol is first traded, with a non-zero
\* quantity, after the first decision step: the rows before hold 0 for it.
C10_Witness ==
    /\ pc = "done" /\ HasLookback
    /\ \E s \in TradedSymbols :
        /\ ~TradedBy(s, position_history[2].timestamp)
        /\ position_history[2].pos[s] = 0
        /\ position_history[Len(position_history)].pos[s] # 0

\* The steps of the model that are not a call of run.
InLoopStep == runs' = runs

\* The trade calls issued in the step whose currentTimestamp is t.
CallsAt(t) == SelectSeq(calls, LAMBDA c : c.exec_ts = t)

\* Symbol s was traded, and only with quantity 0.
OnlyZeroTraded(s) ==
    /\ s \in TradedSymbols
    /\ \A i \in 1..Len(calls) : calls[i].symbol = s => calls[i].qty = 0

\* C11 (zero-quantity trade): trade(symbol, 0) on a symbol with a current
\* open price appends one record to the trade log, leaves cash unchanged and
\* makes symbol a key of positions; when the run completes, a symbol traded
\* only with quantity 0 is a position-history column holding 0 in every row.
C11_ZeroQuantityTrade ==
    [][/\ (TradeStep /\ LastCallNext.qty = 0 /\ LastCallNext.ok) =>
            /\ Len(trade_history') = Len(trade_history) + 1
            /\ SubSeq(trade_history', 1, Len(trade_history)) = trade_history
            /\ trade_history'[Len(trade_history')].symbol = LastCallNext.symbol
            /\ trade_history'[Len(trade_history')].qty = 0
            /\ cash' = cash
            /\ LastCallNext.symbol \in DOMAIN positions'
       /\ (pc' = "done" /\ InLoopStep) =>
            \A s \in Symbols :
                OnlyZeroTraded(s) =>
                    \A i \in 1..Len(position_history') :
                        /\ s \in DOMAIN position_history'[i].pos
                        /\ position_history'[i].pos[s] = 0]_vars

\* A completed run whose only trade on "Y" had quantity 0.
C11_Witness ==
    /\ pc = "done"
    /\ OnlyZeroTraded("Y")
    /\ "Y" \in Columns(position_history)
    /\ Len(trade_history) = Len(calls)

\* The bar timestamps of the on_bar invocations of this run, in call order.
OnBarCalls == SelectSeq(hook_calls, LAMBDA h : h.hook = "on_bar")
OnBarTimestamps == [i \in 1..Len(OnBarCalls) |-> OnBarCalls[i].bar_ts]

\* The timestamp at the position before t's in the timestamp index: the
\* timestamp immediately before t, and for the first timestamp of the data
\* (whose position minus one is -1) the last one.
PositionBefore(t) ==
    IF \E u \in Timestamps : u < t
    THEN CHOOSE u \in Timestamps :
            u < t /\ \A v \in Timestamps : v < t => v <= u
    ELSE CHOOSE u \in Timestamps : \A v \in Timestamps : v <= u

\* C12 as claimed (decision points): when run completes, on_bar was invoked
\* exactly once for each timestamp T of the decision window [start, end], in
\* ascending order, with the bar at T, and for no timestamp outside the
\* window. Stated for the runs that have a timestamp before start.
C12_DecisionPointsAsClaimed ==
    (pc = "done" /\ HasLookback) =>
        OnBarTimestamps = Ascending(DecisionWindow)

\* C12 as amended: when run completes, on_bar was invoked exactly once for
\* each timestamp D of the decision window, in ascending order of D, each
\* time after the repricing at D's open, and with the bar T at the position
\* before D's in the timestamp index: priorTimestamp first, the timestamp
\* before end last. While run is under way the invocations made are a
\* prefix of these.
C12_DecisionPoints ==
    runs > 0 =>
        LET window == Ascending(DecisionWindow)
        IN /\ Len(OnBarCalls) <= Len(window)
           /\ pc = "done" => Len(OnBarCalls) = Len(window)
           /\ \A i \in 1..Len(OnBarCalls) :
                /\ OnBarCalls[i].exec_ts = window[i]
                /\ OnBarCalls[i].bar_ts = PositionBefore(window[i])
           /\ (HasLookback /\ OnBarCalls # <<>>) =>
                /\ OnBarCalls[1].bar_ts = PriorTimestamp
                /\ \A i \in 1..Len(OnBarCalls) :
                    OnBarCalls[i].bar_ts < end_timestamp

\* A completed run over a window of two timestamps: on_bar ran for the
\* timestamp before start and for start, not for end.
C12_Witness ==
    /\ pc = "done" /\ HasLookback
    /\ Cardinality(DecisionWindow) = 2
    /\ OnBarTimestamps = <<PriorTimestamp, start_timestamp>>

\* The on_init invocations of this run.
OnInitCalls == SelectSeq(hook_calls, LAMBDA h : h.hook = "on_init")

\* The trade calls issued from on_init, and from the first on_bar.
CallsFromOnInit == SelectSeq(calls, LAMBDA c : c.hook = "on_init")
FirstStepCalls == CallsAt(hook_calls[1].exec_ts)

\* C13 (on_init ordering): in every run that reaches the loop on_init is
\* invoked exactly once, as the first hook, in the first iteration, when
\* currentTimestamp and currentPrices are already those of that iteration; a
\* trade issued from on_init is priced at the open prices the trades of the
\* first on_bar are priced at, and the first history row after the seed row
\* holds the positions and the cash that the trades of on_init and of the
\* first on_bar leave.
C13_OnInitOrdering ==
    runs > 0 =>
        /\ Len(OnInitCalls) = 1
        /\ hook_calls[1].hook = "on_init"
        /\ hook_calls[1].exec_ts = Ascending(DecisionWindow)[1]
        /\ Len(hook_calls) >= 2 =>
            /\ hook_calls[2].hook = "on_bar"
            /\ hook_calls[2].exec_ts = hook_calls[1].exec_ts
        /\ pc = "on_init" =>
            /\ Len(hook_calls) = 1
            /\ current_ts = hook_calls[1].exec_ts
            /\ current_prices = OpenRowsAt(current_ts)
        /\ \A i \in 1..Len(calls) :
            calls[i].hook = "on_init" =>
                /\ calls[i].exec_ts = hook_calls[1].exec_ts
                /\ \A j \in 1..Len(calls) :
                    (calls[j].hook = "on_bar"
                     /\ calls[j].bar_ts = hook_calls[1].bar_ts)
                        => calls[j].exec_ts = calls[i].exec_ts
        /\ Len(position_history) >= 2 =>
            /\ position_history[2].timestamp = hook_calls[1].exec_ts
            /\ cash_history[2].cash = capital - Spent(FirstStepCalls)
            /\ \A s \in Symbols :
                Held(position_history[2].pos, s) = QtyOn(FirstStepCalls, s)

\* A completed run in which on_init and the first on_bar each traded.
C13_Witness ==
    /\ pc = "done" /\ HasLookback
    /\ Len(calls) = 2
    /\ calls[1].hook = "on_init" /\ calls[1].qty # 0
    /\ calls[2].hook = "on_bar" /\ calls[2].exec_ts = calls[1].exec_ts
    /\ Len(position_history) >= 3

\* The successful trade calls of this run, in call order.
OkCalls == SelectSeq(calls, IsOk)

\* The log holds one record per successful call, in call order, with the
\* symbol and the quantity of its call.
LogMatchesCalls ==
    /\ Len(trade_history) = Len(OkCalls)
    /\ \A i \in 1..Len(trade_history) :
        /\ trade_history[i].symbol = OkCalls[i].symbol
        /\ trade_history[i].qty = OkCalls[i].qty

\* The record timestamps never decrease along the log.
LogTimestampsNonDecreasing ==
    \A i \in 1..Len(trade_history) : \A j \in i..Len(trade_history) :
        trade_history[i].timestamp <= trade_history[j].timestamp

\* C14 (trade log order): when run completes, the trade log holds exactly one
\* record per successful trade call of that run, in call order, each with the
\* symbol and quantity of its call, and the record timestamps are
\* non-decreasing along the log.
C14_TradeLogOrder ==
    pc = "done" => (LogMatchesCalls /\ LogTimestampsNonDecreasing)

\* The same for the runs that have a timestamp before start.
TradeLogOrderWithLookback ==
    (runs > 0 /\ HasLookback) => (LogMatchesCalls /\ LogTimestampsNonDecreasing)

\* Within a run the records already appended are never changed or removed.
TradeLogAppendOnly ==
    [][InLoopStep =>
        /\ Len(trade_history') >= Len(trade_history)
        /\ SubSeq(trade_history', 1, Len(trade_history)) = trade_history]_vars

\* In every run, with or without a timestamp before start, the log matches
\* the successful calls; only the order of the timestamps can fail.
TradeLogMatchesCalls == runs > 0 => LogMatchesCalls

\* The rows already appended to h are still the first rows of h'.
RowsKept(h, hNext) ==
    /\ Len(hNext) >= Len(h)
    /\ SubSeq(hNext, 1, Len(h)) = h

\* C15 (frame of trade): a successful trade(symbol, qty) adds qty to
\* positions[symbol], an absent entry counting as 0, and leaves unchanged the
\* positions of every other symbol, currentTimestamp, currentPrices and every
\* position-history and cash-history row already appended.
C15_FrameOfTrade ==
    [][(TradeStep /\ LastCallNext.ok) =>
        LET symbol == LastCallNext.symbol
            qty == LastCallNext.qty
        IN
        /\ symbol \in DOMAIN positions'
        /\ positions'[symbol] = Held(positions, symbol) + qty
        /\ DOMAIN positions' = DOMAIN positions \cup {symbol}
        /\ \A s \in DOMAIN positions \ {symbol} : positions'[s] = positions[s]
        /\ current_ts' = current_ts
        /\ current_prices' = current_prices
        /\ RowsKept(position_history, position_history')
        /\ RowsKept(cash_history, cash_history')
        /\ position_history' = position_history
        /\ cash_history' = cash_history]_vars

\* A successful non-zero trade on a symbol already held at a non-zero
\* quantity, with history rows behind it.
C15_Witness ==
    /\ pc \in {"on_init", "on_bar"}
    /\ Len(calls) = 2
    /\ calls[1].ok /\ calls[2].ok
    /\ calls[1].symbol = calls[2].symbol
    /\ calls[2].qty # 0
    /\ positions[calls[2].symbol] = calls[1].qty + calls[2].qty
    /\ positions[calls[2].symbol] # calls[2].qty
    /\ Len(position_history) >= 2

\* The last row of a history.
LastRow(h) == h[Len(h)]

\* A step of the loop that appends the rows of an iteration in which no
\* trade was issued.
QuietSnapshot ==
    /\ Len(cash_history') = Len(cash_history) + 1
    /\ CallsAt(current_ts) = << >>

\* C16 (only trade moves cash and positions): inside the loop every step
\* other than a trade call (repricing, a hook returning, snapshotting) leaves
\* cash and positions unchanged, so the position-history and cash-history
\* rows appended for an iteration in which no trade was issued hold the same
\* values as the previous rows.
C16_OnlyTradeMoves ==
    [][(InLoopStep /\ ~TradeStep) =>
        /\ cash' = cash
        /\ positions' = positions
        /\ QuietSnapshot =>
            /\ Len(position_history') = Len(position_history) + 1
            /\ LastRow(cash_history').timestamp = current_ts
            /\ LastRow(position_history').timestamp = current_ts
            /\ LastRow(cash_history').cash = LastRow(cash_history).cash
            /\ \A s \in Symbols :
                Held(LastRow(position_history').pos, s)
                    = Held(LastRow(position_history).pos, s)]_vars

\* A completed run whose first iteration traded and moved cash and whose last
\* iteration issued no trade: the last rows repeat the rows before them.
C16_Witness ==
    /\ pc = "done"
    /\ Len(cash_history) >= 3
    /\ CallsAt(LastRow(cash_history).timestamp) = << >>
    /\ LastRow(cash_history).cash = cash_history[Len(cash_history) - 1].cash
    /\ LastRow(cash_history).cash # capital
    /\ \E s \in Symbols : Held(LastRow(position_history).pos, s) # 0

\* The calls issued in the loop steps up to and including the step that
\* appended row k of the histories (row 1 is the seed row, before any step).
CallsUpToRow(k) ==
    SelectSeq(calls, LAMBDA c :
        \E j \in 2..k : position_history[j].timestamp = c.exec_ts)

\* C17 (position history matches the trades): when run completes, the seed
\* row holds 0 for every symbol, and the row of every later step holds for
\* every symbol s the sum of the quantities of all trades on s issued in the
\* loop steps up to and including that step, the trades from on_init counted
\* in the first step.
C17_PositionHistoryMatchesTrades ==
    pc = "done" =>
        /\ \A s \in Symbols : Held(position_history[1].pos, s) = 0
        /\ \A k \in 2..Len(position_history) : \A s \in Symbols :
            Held(position_history[k].pos, s) = QtyOn(CallsUpToRow(k), s)
        /\ \A k \in 1..Len(position_history) :
            DOMAIN position_history[k].pos = TradedSymbols

\* A completed run with non-zero trades in two different steps: the rows of
\* the two steps differ and the last one holds the sum.
C17_Witness ==
    /\ pc = "done"
    /\ Len(position_history) >= 3
    /\ Len(calls) = 2
    /\ calls[1].symbol = calls[2].symbol
    /\ calls[1].qty # 0 /\ calls[2].qty # 0
    /\ calls[1].exec_ts < calls[2].exec_ts
    /\ LastRow(position_history).pos[calls[1].symbol]
         = calls[1].qty + calls[2].qty

\* A step in which the running hook calls trade and the price lookup fails.
FailedTradeStep == TradeStep /\ ~LastCallNext.ok

\* C18 (failed trade is atomic): when trade(symbol, qty) fails because symbol
\* has no open price at currentTimestamp, positions (positions[symbol]
\* included), cash and the trade log are the same after the failure as
\* before the call.
C18_FailedTradeAtomic ==
    [][FailedTradeStep =>
        /\ \A s \in Symbols : Held(positions', s) = Held(positions, s)
        /\ cash' = cash
        /\ trade_history' = trade_history]_vars

\* What does hold of a failed trade: cash and the trade log are untouched,
\* the run fails with MissingPrice, and positions[symbol] already carries qty.
FailedTradeKeepsCashAndLog ==
    [][FailedTradeStep =>
        /\ cash' = cash
        /\ trade_history' = trade_history
        /\ pc' = "failed" /\ error' = "MissingPrice"
        /\ positions' = AddPosition(positions, LastCallNext.symbol,
                                    LastCallNext.qty)]_vars
====
